---- MODULE Spec2Model ----
(***************************************************************************)
(* Model of tools/respecDocWriter.js: fetchAndWrite() drives a headless    *)
(* browser through launch, navigation, the ReSpec check, the readiness     *)
(* race, the version-gated export and the output, and closes the browser   *)
(* in a finally block.  The remote document raises respecerror/respecwarn  *)
(* events that the exposed function onRespecErrorOrWarning forwards to the *)
(* onError/onWarning callbacks.                                            *)
(*                                                                         *)
(* Environment (puppeteer, the page, the file system, the clock) is        *)
(* nondeterministic: every awaited call may succeed or fail, the page      *)
(* raises events at any time while it is alive, and the binding channel    *)
(* between the page and node is a FIFO that is torn down when the browser  *)
(* has been closed.  The commands of a page go to the browser in the order *)
(* of the calls and are handled in that order.                             *)
(*                                                                         *)
(* Two modules that run inside the document are modelled on their own:     *)
(* core/examples (the numbering of examples and the "example" reports) and *)
(* core/linter-rules/local-refs-exist (the warning about broken local      *)
(* references).                                                            *)
(***************************************************************************)
EXTENDS Integers, Sequences, FiniteSets, TLC

\* ------------------------------------------------------------------ bounds
MaxTime == 2          \* the clock runs 0..MaxTime
MaxTimeout == 2       \* options.timeout is drawn from 1..MaxTimeout
MaxEvents == 2        \* events one document raises
MaxMarkupLen == 1     \* characters of the exported markup
MaxExportLen == 3     \* characters of the markup in the runs of the export alone
MaxExamples == 3      \* examples of the document core/examples runs over
MaxLinks == 2         \* a[href] elements of the document the linter runs over

\* ------------------------------------------------------------- invocations
Invs == {"a", "b"}    \* two calls of fetchAndWrite in the same node process
Solo == {"a"}         \* Spec runs one of them, SpecConc runs both

Max(x, y) == IF x >= y THEN x ELSE y

\* ------------------------------------------------------------------ inputs
\* src: a string new URL() parses into origin, pathname and search, or one it
\* rejects.
Srcs ==
  { <<"https://example.org", "/spec.html", "?key=SECRET">>,
    <<"file://", "/spec.html", "">>,
    <<"not a url">> }

\* out: null, "" or a path (absolute or relative to the working directory).
OutUnread == [kind |-> "unread", abs |-> FALSE, name |-> ""]
OutNull == [kind |-> "null", abs |-> FALSE, name |-> ""]
OutEmpty == [kind |-> "string", abs |-> FALSE, name |-> ""]
OutAbs == [kind |-> "string", abs |-> TRUE, name |-> "/tmp/out.html"]
OutRel == [kind |-> "string", abs |-> FALSE, name |-> "out.html"]
Outs == {OutNull, OutEmpty, OutAbs, OutRel}

Statuses == {0, 200, 299, 300, 404}

EventTypes == {"respecerror", "respecwarn"}

\* window.respecVersion: "Developer Edition", or dot-separated decimal numbers
\* (each a sequence of digits).
Patches == { <<0>>, <<3>> }
DeveloperEdition == [dev |-> TRUE, parts |-> <<>>]
RespecVersions ==
  {DeveloperEdition} \cup
  { [dev |-> FALSE, parts |-> <<ma, mi, pa>>] :
      ma \in { <<1, 9>>, <<2, 0>>, <<2, 1>> },
      mi \in { <<9>>, <<1, 0>>, <<1, 1>> },
      pa \in Patches }

\* The document's markup: strings over a small alphabet that holds a
\* character encodeURIComponent keeps and one it escapes (the escape character
\* itself).
Alphabet == {"a", "%"}
SeqsUpTo(S, n) == UNION { [1..k -> S] : k \in 0..n }
Markups == SeqsUpTo(Alphabet, MaxMarkupLen) \ { <<>> }

\* ------------------------------------------------------------------- state
VARIABLES
  env,          \* what the outside world offers: the inputs of this run
  procAlive,    \* the node process is running (FALSE after process.exit)
  exitedBy,     \* the invocation whose writeTo called process.exit, or "none"
  now,          \* Date.now()
  pc,           \* where each invocation of fetchAndWrite stands
  timeout,      \* options.timeout
  timerStart,   \* createTimer: start
  nextDir,      \* mkdtemp: the next unique directory suffix
  userDataDir,  \* the profile directory of each invocation (0: none)
  browser,      \* "none", "open" or "closed"
  page,         \* "none", "open" or "closed"
  closeCalls,   \* how often browser.close() was called
  exposed,      \* page.exposeFunction("onRespecErrorOrWarning") is installed
  listeners,    \* the listeners of evaluateOnNewDocument are registered
  cmds,         \* commands sent to the browser, not yet handled by it
  loading,      \* the browser has started to load the target document
  url,          \* new URL(src)
  gotoStart,    \* when page.goto was called
  status,       \* response.status() (-1: no response yet)
  isRespecDoc,  \* what page.evaluate(isRespec) returned, or "unknown"
  version,      \* the result of getVersion
  evalStart,    \* when page.evaluate(evaluateHTML) was called
  evalMs,       \* timer.remaining as serialised into the page
  raceWinner,   \* what settled timeout(document.respecIsReady, ms)
  path,         \* "legacy", "modern" or "none"
  docMarkup,    \* the markup of the document the export module serialises
  advisories,   \* console.warn calls of evaluateHTML
  html,         \* the markup generateHTML returned
  out,          \* the destination, once the switch has read it
  written,      \* the writes of this invocation: stdout or file
  body,         \* how the try block completed
  outcome,      \* how the promise of fetchAndWrite settled
  emitted,      \* the events the document raised
  inflight,     \* binding calls sent by the page, not yet handled by node
  calls,        \* the onError/onWarning calls made, in order
  examples,     \* core/examples: the run of the module over a document
  linter        \* core/linter-rules/local-refs-exist: the run of the rule

vars ==
  << env, procAlive, exitedBy, now, pc, timeout, timerStart, nextDir, userDataDir,
     browser, page, closeCalls, exposed, listeners, cmds, loading, url, gotoStart,
     status, isRespecDoc, version, evalStart, evalMs, raceWinner, path, docMarkup,
     advisories, html, out, written, body, outcome, emitted, inflight, calls,
     examples, linter >>

\* ---------------------------------------------------------- errors, results
NoErr == [kind |-> "none", cause |-> "", info |-> <<>>]
Err(kind, cause, info) == [kind |-> kind, cause |-> cause, info |-> info]

NoCompletion == [type |-> "none", html |-> <<>>, err |-> NoErr]
Return(h) == [type |-> "return", html |-> h, err |-> NoErr]
Throw(e) == [type |-> "throw", html |-> <<>>, err |-> e]

Pending == [state |-> "pending", html |-> <<>>, err |-> NoErr]
Resolved(h) == [state |-> "resolved", html |-> h, err |-> NoErr]
Rejected(e) == [state |-> "rejected", html |-> <<>>, err |-> e]

\* The timer without the clamp at zero.
RemainingUnclamped(start, duration, t) == duration - (t - start)

\* ------------------------------------------------------------- createTimer
\* get remaining() { spent = Date.now() - start; max(0, duration - spent) }
Remaining(start, duration, t) == Max(0, duration - (t - start))

\* ----------------------------------------------------------------- new URL
NoURL == [origin |-> "", pathname |-> "", search |-> ""]
ValidSrc(src) == Len(src) = 3
NewURL(src) == [origin |-> src[1], pathname |-> src[2], search |-> src[3]]

\* response.ok() is a status in 200..299; the code then lets status 0 pass:
\* !response.ok() && response.status()
ResponseOk(st) == st >= 200 /\ st <= 299
IsHTTPError(st) == ~ResponseOk(st) /\ st # 0

\* A debugURL that shows the whole href, parameters included.
DebugURLWithSearch(u) == << u.origin, u.pathname, u.search >>

\* const debugURL = `${url.origin}${url.pathname}`;
DebugURL(u) == << u.origin, u.pathname >>
\* const msg = `${warn} ${colors.debug(debugURL)}`, warn = HTTP Error <status>:
HTTPErrorMessage(st, u) == << "HTTP Error", ToString(st) >> \o DebugURL(u)

\* ------------------------------------------------------------- getVersion
RECURSIVE ParseInt(_)
ParseInt(digits) ==
  IF digits = <<>> THEN 0
  ELSE 10 * ParseInt(SubSeq(digits, 1, Len(digits) - 1)) + digits[Len(digits)]

GetVersion(rv) ==
  IF rv.dev THEN << 123456789, 0, 0 >>
  ELSE [k \in 1..Len(rv.parts) |-> ParseInt(rv.parts[k])]

NoVersion == << >>

\* The version test with the boundary off by one: 20.10 taken as old.
IsLegacyUpTo2010(v) == v[1] < 20 \/ (v[1] = 20 /\ v[2] <= 10)

\* const [major, minor] = version;
\* if (major < 20 || (major === 20 && minor < 10))
IsLegacy(v) == v[1] < 20 \/ (v[1] = 20 /\ v[2] < 10)

\* ------------------------------------------------- export and its decoding
\* encodeURIComponent, one character at a time.
EncodeChar(c) ==
  IF c = "%" THEN << "%", "2", "5" >>
  ELSE IF c = " " THEN << "%", "2", "0" >>
  ELSE << c >>

RECURSIVE EncodeURIComponent(_)
EncodeURIComponent(s) ==
  IF s = <<>> THEN <<>> ELSE EncodeChar(Head(s)) \o EncodeURIComponent(Tail(s))

\* rsDocToDataURL(mime): `data:${mime};charset=utf-8,${encodeURIComponent(..)}`
DataURLPrefix == << "data:", "text", "/", "html", ";charset=utf-8," >>
RsDocToDataURL(markup) == DataURLPrefix \o EncodeURIComponent(markup)

\* An export that leaves the data URL prefix in place.
StripNothing(d) == d

\* dataURL.replace(/^data:\w+\/\w+;charset=utf-8,/, "")
IsWord(tok) == tok \in {"text", "html", "a", "2", "5", "0"}
StripDataPrefix(d) ==
  IF /\ Len(d) >= 5
     /\ d[1] = "data:" /\ IsWord(d[2]) /\ d[3] = "/" /\ IsWord(d[4])
     /\ d[5] = ";charset=utf-8,"
  THEN SubSeq(d, 6, Len(d))
  ELSE d

\* decodeURIComponent: %25 and %20 are escapes, anything else stands for itself.
RECURSIVE DecodeURIComponent(_)
DecodeURIComponent(s) ==
  IF s = <<>> THEN <<>>
  ELSE IF Len(s) >= 3 /\ s[1] = "%" /\ s[2] = "2" /\ s[3] = "5"
    THEN << "%" >> \o DecodeURIComponent(SubSeq(s, 4, Len(s)))
  ELSE IF Len(s) >= 3 /\ s[1] = "%" /\ s[2] = "2" /\ s[3] = "0"
    THEN << " " >> \o DecodeURIComponent(SubSeq(s, 4, Len(s)))
  ELSE << Head(s) >> \o DecodeURIComponent(Tail(s))

\* The two branches of evaluateHTML once the export module is loaded.
ExportLegacy(markup) == markup
ExportModern(markup) == DecodeURIComponent(StripDataPrefix(RsDocToDataURL(markup)))
ExportHTML(v, markup) ==
  IF IsLegacy(v) THEN ExportLegacy(markup) ELSE ExportModern(markup)

\* ------------------------------------------------------------------ writeTo
Cwd == "/cwd/"
NewFilePath(o) == IF o.abs THEN << o.name >> ELSE << Cwd, o.name >>

\* --------------------------------------------------- onRespecErrorOrWarning
\* A dispatch with the two callbacks mixed up.
DispatchSwapped(e) ==
  IF e.type = "respecerror" THEN << [cb |-> "onWarning", detail |-> e.detail] >>
  ELSE IF e.type = "respecwarn" THEN << [cb |-> "onError", detail |-> e.detail] >>
  ELSE << >>

\* if (e.type === "respecerror") return onError(e.detail);
\* if (e.type === "respecwarn") return onWarning(e.detail);
Dispatch(e) ==
  IF e.type = "respecerror" THEN << [cb |-> "onError", detail |-> e.detail] >>
  ELSE IF e.type = "respecwarn" THEN << [cb |-> "onWarning", detail |-> e.detail] >>
  ELSE << >>

\* for (const evName of ["respecwarn", "respecerror"]) addEventListener(...)
Listened(type) == type \in {"respecwarn", "respecerror"}

\* -------------------------------------------------------------------- Init
\* Every input the bounds allow.
AnyInput ==
  [ srcs |-> Srcs, timeouts |-> 1..MaxTimeout, statuses |-> Statuses,
    versions |-> RespecVersions, markups |-> Markups, outs |-> Outs ]

\* A narrower world for the runs with two invocations: a document of an old
\* and of a new ReSpec, a good and a bad response, stdout or a file.
FewInputs ==
  [ srcs |-> { <<"https://example.org", "/spec.html", "?key=SECRET">> },
    timeouts |-> {1}, statuses |-> {200, 404},
    versions |-> { DeveloperEdition,
                   [dev |-> FALSE, parts |-> << <<1, 9>>, <<1, 1>>, <<0>> >>] },
    markups |-> { <<"a">> }, outs |-> {OutNull, OutRel} ]

Started ==
  /\ procAlive = TRUE
  /\ exitedBy = "none"
  /\ now = 0
  /\ pc = [i \in Invs |-> "idle"]
  /\ timeout = [i \in Invs |-> 0]
  /\ timerStart = [i \in Invs |-> 0]
  /\ nextDir = 1
  /\ userDataDir = [i \in Invs |-> 0]
  /\ browser = [i \in Invs |-> "none"]
  /\ page = [i \in Invs |-> "none"]
  /\ closeCalls = [i \in Invs |-> 0]
  /\ exposed = [i \in Invs |-> FALSE]
  /\ listeners = [i \in Invs |-> FALSE]
  /\ cmds = [i \in Invs |-> << >>]
  /\ loading = [i \in Invs |-> FALSE]
  /\ url = [i \in Invs |-> NoURL]
  /\ gotoStart = [i \in Invs |-> 0]
  /\ status = [i \in Invs |-> -1]
  /\ isRespecDoc = [i \in Invs |-> "unknown"]
  /\ version = [i \in Invs |-> NoVersion]
  /\ evalStart = [i \in Invs |-> 0]
  /\ evalMs = [i \in Invs |-> 0]
  /\ raceWinner = [i \in Invs |-> "none"]
  /\ path = [i \in Invs |-> "none"]
  /\ docMarkup = [i \in Invs |-> <<>>]
  /\ advisories = [i \in Invs |-> 0]
  /\ html = [i \in Invs |-> <<>>]
  /\ out = [i \in Invs |-> OutUnread]
  /\ written = [i \in Invs |-> <<>>]
  /\ body = [i \in Invs |-> NoCompletion]
  /\ outcome = [i \in Invs |-> Pending]
  /\ emitted = [i \in Invs |-> <<>>]
  /\ inflight = [i \in Invs |-> <<>>]
  /\ calls = [i \in Invs |-> <<>>]

\* The world of the export alone: every markup of the larger alphabet, a
\* good response, a ReSpec of the modern and one of the legacy branch.
ExportAlphabet == {"a", "%", "2", "5", " "}
ExportInputs ==
  [ srcs |-> { <<"https://example.org", "/spec.html", "">> },
    timeouts |-> {1}, statuses |-> {200},
    versions |-> { DeveloperEdition,
                   [dev |-> FALSE, parts |-> << <<1, 9>>, <<1, 1>>, <<0>> >>] },
    markups |-> SeqsUpTo(ExportAlphabet, MaxExportLen),
    outs |-> {OutNull, OutEmpty} ]

\* Nothing of core/examples or of the linter runs in the runs of fetchAndWrite.
NoExamples ==
  [doc |-> << >>, pos |-> 0, number |-> 0, titles |-> << >>, published |-> << >>]
NoLint ==
  [enabled |-> FALSE, ids |-> {}, names |-> {}, links |-> << >>,
   ran |-> FALSE, warnings |-> << >>]

Init == env = AnyInput /\ Started /\ examples = NoExamples /\ linter = NoLint
InitExport ==
  env = ExportInputs /\ Started /\ examples = NoExamples /\ linter = NoLint
InitConc ==
  env = FewInputs /\ Started /\ examples = NoExamples /\ linter = NoLint

\* The variables by the part of the program that owns them.
procVars == << env, procAlive, exitedBy >>
sessionVars == << nextDir, userDataDir, browser, page, closeCalls >>
bridgeVars == << exposed, listeners, cmds, loading >>
navVars == << url, gotoStart, status, isRespecDoc >>
genVars == << version, evalStart, evalMs, raceWinner, path, docMarkup, advisories, html >>
outVars == << out, written >>
resultVars == << body, outcome >>
eventVars == << emitted, inflight, calls >>
docVars == << examples, linter >>

\* A throw inside the try block: control goes to the finally block.
ThrowInTry(i, e) ==
  /\ body' = [body EXCEPT ![i] = Throw(e)]
  /\ pc' = [pc EXCEPT ![i] = "finally"]

\* ------------------------------------------------- fetchAndWrite, line by line
\* const timer = createTimer(timeout); mkdtemp(...) is called.
Call(i) ==
  /\ procAlive /\ pc[i] = "idle"
  /\ \E t \in env.timeouts : timeout' = [timeout EXCEPT ![i] = t]
  /\ timerStart' = [timerStart EXCEPT ![i] = now]
  /\ pc' = [pc EXCEPT ![i] = "mkdtemp"]
  /\ UNCHANGED << procVars, docVars,
                  now, sessionVars, bridgeVars, navVars, genVars,
                  outVars, resultVars, eventVars >>

\* const userDataDir = await mkdtemp(...); puppeteer.launch(...) is called.
Mkdtemp(i) ==
  /\ procAlive /\ pc[i] = "mkdtemp"
  /\ \/ /\ userDataDir' = [userDataDir EXCEPT ![i] = nextDir]
        /\ nextDir' = nextDir + 1
        /\ pc' = [pc EXCEPT ![i] = "launch"]
        /\ UNCHANGED outcome
     \/ /\ outcome' = [outcome EXCEPT ![i] = Rejected(Err("MkdtempError", "", <<>>))]
        /\ pc' = [pc EXCEPT ![i] = "done"]
        /\ UNCHANGED << userDataDir, nextDir >>
  /\ UNCHANGED << procVars, docVars,
                  now, timeout, timerStart, browser, page, closeCalls,
                  bridgeVars, navVars, genVars, outVars, body, eventVars >>

\* const browser = await puppeteer.launch(...); try { browser.newPage() ...
Launch(i) ==
  /\ procAlive /\ pc[i] = "launch"
  /\ \/ /\ browser' = [browser EXCEPT ![i] = "open"]
        /\ pc' = [pc EXCEPT ![i] = "newPage"]
        /\ UNCHANGED outcome
     \/ /\ outcome' = [outcome EXCEPT ![i] = Rejected(Err("LaunchError", "", <<>>))]
        /\ pc' = [pc EXCEPT ![i] = "done"]
        /\ UNCHANGED browser
  /\ UNCHANGED << procVars, docVars,
                  now, timeout, timerStart, nextDir, userDataDir, page,
                  closeCalls, bridgeVars, navVars, genVars, outVars, body,
                  eventVars >>

\* const page = await browser.newPage(); page.exposeFunction(...) is called.
NewPage(i) ==
  /\ procAlive /\ pc[i] = "newPage"
  /\ \/ /\ page' = [page EXCEPT ![i] = "open"]
        /\ pc' = [pc EXCEPT ![i] = "exposeFunction"]
        /\ UNCHANGED body
     \/ /\ ThrowInTry(i, Err("NewPageError", "", <<>>))
        /\ UNCHANGED page
  /\ UNCHANGED << procVars, docVars,
                  now, timeout, timerStart, nextDir, userDataDir,
                  browser, closeCalls, bridgeVars, navVars, genVars, outVars,
                  outcome, eventVars >>

\* A fetchAndWrite that calls page.goto before page.evaluateOnNewDocument.
NavigateThenRegister(register, navigate) == navigate \o register

\* page.evaluateOnNewDocument(...) and then page.goto(...): each call sends its
\* command to the browser when it is made, on the one connection of the page,
\* so the commands leave in the order of the calls.
SentInOrder(register, navigate) == register \o navigate

\* await page.exposeFunction(...) returns; page.evaluateOnNewDocument(...) is
\* called and not awaited; const url = new URL(src); page.goto(url, {timeout})
\* is called.
ExposeFunction(i) ==
  /\ procAlive /\ pc[i] = "exposeFunction"
  /\ \/ /\ exposed' = [exposed EXCEPT ![i] = TRUE]
        /\ \E src \in env.srcs :
             IF ValidSrc(src)
             THEN /\ url' = [url EXCEPT ![i] = NewURL(src)]
                  /\ gotoStart' = [gotoStart EXCEPT ![i] = now]
                  /\ cmds' = [cmds EXCEPT ![i] =
                               SentInOrder(<< "register" >>, << "navigate" >>)]
                  /\ pc' = [pc EXCEPT ![i] = "goto"]
                  /\ UNCHANGED body
             ELSE /\ cmds' = [cmds EXCEPT ![i] = << "register" >>]
                  /\ ThrowInTry(i, Err("URLError", "", <<>>))
                  /\ UNCHANGED << url, gotoStart >>
     \/ /\ ThrowInTry(i, Err("ExposeFunctionError", "", <<>>))
        /\ UNCHANGED << exposed, cmds, url, gotoStart >>
  /\ UNCHANGED << procVars, docVars,
                  now, timeout, timerStart, sessionVars, listeners, loading,
                  status, isRespecDoc, genVars, outVars, outcome, eventVars >>

\* The browser handles the next command of the page's connection, in the
\* order sent: it registers the script that adds the listeners to every new
\* document, or it starts to load the target.  (A connection that breaks is
\* the failure of page.goto.)
BrowserHandles(i) ==
  /\ procAlive /\ browser[i] = "open" /\ cmds[i] # << >>
  /\ IF Head(cmds[i]) = "register"
     THEN /\ listeners' = [listeners EXCEPT ![i] = TRUE]
          /\ UNCHANGED loading
     ELSE /\ loading' = [loading EXCEPT ![i] = TRUE]
          /\ UNCHANGED listeners
  /\ cmds' = [cmds EXCEPT ![i] = Tail(@)]
  /\ UNCHANGED << procVars, docVars,
                  now, pc, timeout, timerStart, sessionVars, exposed, navVars,
                  genVars, outVars, resultVars, eventVars >>

\* The budget page.goto is given: { timeout }, the whole timeout option of the
\* invocation, whatever the timer has left.
NavigationBudget(i) == timeout[i]

\* const response = await page.goto(url, { timeout }); the status check of
\* lines 89-98; checkIfReSpec(page) is called.
Goto(i) ==
  /\ procAlive /\ pc[i] = "goto"
  /\ now - gotoStart[i] <= NavigationBudget(i)
  /\ \/ \E st \in env.statuses :
          /\ loading[i]
          /\ status' = [status EXCEPT ![i] = st]
          /\ IF IsHTTPError(st)
             THEN ThrowInTry(i, Err("HTTPError", "", HTTPErrorMessage(st, url[i])))
             ELSE /\ pc' = [pc EXCEPT ![i] = "checkIfReSpec"]
                  /\ UNCHANGED body
     \/ /\ ThrowInTry(i, Err("NavigationError", "net", <<>>))
        /\ UNCHANGED status
  /\ gotoStart' = [gotoStart EXCEPT ![i] = 0]
  /\ UNCHANGED << procVars, docVars,
                  now, timeout, timerStart, sessionVars, bridgeVars,
                  url, isRespecDoc, genVars, outVars, outcome, eventVars >>

\* page.goto rejects because the navigation took the { timeout } it was given.
\* (gotoStart is the navigation timer of the browser: it is dropped when
\* page.goto settles.)
GotoTimeout(i) ==
  /\ procAlive /\ pc[i] = "goto"
  /\ now - gotoStart[i] >= NavigationBudget(i)
  /\ ThrowInTry(i, Err("NavigationError", "timeout", <<>>))
  /\ gotoStart' = [gotoStart EXCEPT ![i] = 0]
  /\ UNCHANGED << procVars, docVars,
                  now, timeout, timerStart, sessionVars, bridgeVars,
                  url, status, isRespecDoc, genVars, outVars, outcome,
                  eventVars >>

\* A check that lets every document through.
EveryDocumentPasses(isRespecDocument) == TRUE

\* if (!isRespecDoc) throw ...: only a document isRespec says true of passes.
PassesCheck(isRespecDocument) == isRespecDocument

\* const isRespecDoc = await page.evaluate(isRespec); if (!isRespecDoc) throw;
\* generateHTML: page.waitForFunction(...) is called.  The response is not
\* read again after the status check, and is forgotten here.
CheckIfReSpec(i) ==
  /\ procAlive /\ pc[i] = "checkIfReSpec"
  /\ \/ \E r \in BOOLEAN :
          /\ isRespecDoc' = [isRespecDoc EXCEPT ![i] = IF r THEN "true" ELSE "false"]
          /\ IF PassesCheck(r)
             THEN /\ pc' = [pc EXCEPT ![i] = "waitForFunction"]
                  /\ UNCHANGED body
             ELSE ThrowInTry(i, Err("NotReSpec", "", <<>>))
     \/ /\ ThrowInTry(i, Err("CheckIfReSpecError", "", <<>>))
        /\ UNCHANGED isRespecDoc
  /\ status' = [status EXCEPT ![i] = -1]
  /\ UNCHANGED << procVars, docVars,
                  now, timeout, timerStart, sessionVars, bridgeVars,
                  url, gotoStart, genVars, outVars, outcome, eventVars >>

\* await page.waitForFunction(() => window.hasOwnProperty("respecVersion"));
\* page.evaluate(getVersion) is called.
WaitForFunction(i) ==
  /\ procAlive /\ pc[i] = "waitForFunction"
  /\ \/ /\ pc' = [pc EXCEPT ![i] = "getVersion"]
        /\ UNCHANGED body
     \/ ThrowInTry(i, Err("WaitForFunctionError", "", <<>>))
  /\ UNCHANGED << procVars, docVars,
                  now, timeout, timerStart, sessionVars, bridgeVars,
                  navVars, genVars, outVars, outcome, eventVars >>

\* const version = await page.evaluate(getVersion);
\* page.evaluate(evaluateHTML, version, timer) is called: timer.remaining is
\* read when the argument is serialised, and the page starts
\* timeout(document.respecIsReady, timer.remaining).
GetVersionStep(i) ==
  /\ procAlive /\ pc[i] = "getVersion"
  /\ \/ /\ \E rv \in env.versions :
             version' = [version EXCEPT ![i] = GetVersion(rv)]
        /\ evalMs' = [evalMs EXCEPT ![i] = Remaining(timerStart[i], timeout[i], now)]
        /\ evalStart' = [evalStart EXCEPT ![i] = now]
        /\ pc' = [pc EXCEPT ![i] = "respecIsReady"]
        /\ UNCHANGED body
     \/ /\ ThrowInTry(i, Err("GetVersionError", "", <<>>))
        /\ UNCHANGED << version, evalMs, evalStart >>
  /\ UNCHANGED << procVars, docVars,
                  now, timeout, timerStart, sessionVars, bridgeVars,
                  navVars, raceWinner, path, docMarkup, advisories, html, outVars,
                  outcome, eventVars >>

\* ---------------------------------------------------------- generateHTML
\* catch (err) { ... throw new Error(msg) }: whatever made
\* page.evaluate(evaluateHTML, ...) reject is wrapped in one and the same
\* error, whose message holds the url and the text of the cause.
GenerateHTMLError(cause, u) ==
  Err("GenerateHTMLError", cause, << u.origin, u.pathname, u.search >>)

\* ---------------------------------------------------------- evaluateHTML
\* evalStart and evalMs are the page's setTimeout: once the race is settled
\* the timer can no longer change anything and is dropped.
\* document.respecIsReady resolves before the timer: the version test, the
\* console.warn of the legacy branch, and require([...]) is called.
ReadyResolved(i) ==
  /\ procAlive /\ pc[i] = "respecIsReady"
  /\ raceWinner' = [raceWinner EXCEPT ![i] = "resolved"]
  /\ IF IsLegacy(version[i])
     THEN /\ path' = [path EXCEPT ![i] = "legacy"]
          /\ advisories' = [advisories EXCEPT ![i] = @ + 1]
     ELSE /\ path' = [path EXCEPT ![i] = "modern"]
          /\ UNCHANGED advisories
  /\ pc' = [pc EXCEPT ![i] = "require"]
  /\ evalStart' = [evalStart EXCEPT ![i] = 0]
  /\ evalMs' = [evalMs EXCEPT ![i] = 0]
  /\ UNCHANGED << procVars, docVars,
                  now, timeout, timerStart, sessionVars, bridgeVars,
                  navVars, version, docMarkup, html, outVars, resultVars,
                  eventVars >>

\* document.respecIsReady rejects before the timer: promise.then(resolve,
\* reject) rejects the evaluation, and generateHTML's catch wraps the error.
ReadyRejected(i) ==
  /\ procAlive /\ pc[i] = "respecIsReady"
  /\ raceWinner' = [raceWinner EXCEPT ![i] = "rejected"]
  /\ version' = [version EXCEPT ![i] = NoVersion]
  /\ ThrowInTry(i, GenerateHTMLError("respecIsReady", url[i]))
  /\ evalStart' = [evalStart EXCEPT ![i] = 0]
  /\ evalMs' = [evalMs EXCEPT ![i] = 0]
  /\ UNCHANGED << procVars, docVars,
                  now, timeout, timerStart, sessionVars, bridgeVars,
                  navVars, path, docMarkup, advisories, html, outVars, outcome,
                  eventVars >>

\* setTimeout(() => reject(msg), ms) fires first: the evaluation rejects with
\* the Timeout message, and generateHTML's catch wraps it like any other error.
TimerFired(i) ==
  /\ procAlive /\ pc[i] = "respecIsReady"
  /\ now - evalStart[i] >= evalMs[i]
  /\ raceWinner' = [raceWinner EXCEPT ![i] = "timer"]
  /\ version' = [version EXCEPT ![i] = NoVersion]
  /\ ThrowInTry(i, GenerateHTMLError("Timeout", url[i]))
  /\ evalStart' = [evalStart EXCEPT ![i] = 0]
  /\ evalMs' = [evalMs EXCEPT ![i] = 0]
  /\ UNCHANGED << procVars, docVars,
                  now, timeout, timerStart, sessionVars, bridgeVars,
                  navVars, path, docMarkup, advisories, html, outVars, outcome,
                  eventVars >>

\* require([...], resolve, err => reject(new Error(err.message))): the module
\* loads and the export runs, evaluateHTML and generateHTML return, and
\* beforeWrite() is called; or the load fails and generateHTML's catch wraps it.
Require(i) ==
  /\ procAlive /\ pc[i] = "require"
  /\ \/ /\ \E m \in env.markups :
             /\ docMarkup' = [docMarkup EXCEPT ![i] = m]
             /\ html' = [html EXCEPT ![i] = ExportHTML(version[i], m)]
        /\ pc' = [pc EXCEPT ![i] = "beforeWrite"]
        /\ UNCHANGED body
     \/ /\ ThrowInTry(i, GenerateHTMLError("require", url[i]))
        /\ UNCHANGED << docMarkup, html >>
  /\ version' = [version EXCEPT ![i] = NoVersion]
  /\ UNCHANGED << procVars, docVars,
                  now, timeout, timerStart, sessionVars, bridgeVars,
                  navVars, evalStart, evalMs, raceWinner, path, advisories,
                  outVars, outcome, eventVars >>

\* ------------------------------------------------------------------ output
\* A switch without the case "": the empty string goes to writeTo.
SinkWithoutEmptyCase(o) == IF o.kind = "null" THEN "stdout" ELSE "file"

\* switch (out) { case null: stdout; case "": nothing; default: writeTo }
Sink(o) ==
  IF o.kind = "null" THEN "stdout"
  ELSE IF o.name = "" THEN "none"
  ELSE "file"

StdoutWrite(data) == [sink |-> "stdout", path |-> <<>>, data |-> data]
FileWrite(o, data) == [sink |-> "file", path |-> NewFilePath(o), data |-> data]

\* await beforeWrite(); the switch; page.close() is called unless writeTo
\* awaits writeFile.
BeforeWrite(i) ==
  /\ procAlive /\ pc[i] = "beforeWrite"
  /\ \/ \E o \in env.outs :
          /\ out' = [out EXCEPT ![i] = o]
          /\ \/ /\ Sink(o) = "stdout"
                /\ written' = [written EXCEPT ![i] = Append(@, StdoutWrite(html[i]))]
                /\ pc' = [pc EXCEPT ![i] = "pageClose"]
             \/ /\ Sink(o) = "none"
                /\ pc' = [pc EXCEPT ![i] = "pageClose"]
                /\ UNCHANGED written
             \/ /\ Sink(o) = "file"
                /\ pc' = [pc EXCEPT ![i] = "writeFile"]
                /\ UNCHANGED written
          /\ UNCHANGED body
     \/ /\ ThrowInTry(i, Err("BeforeWriteError", "", <<>>))
        /\ UNCHANGED outVars
  /\ UNCHANGED << procVars, docVars,
                  now, timeout, timerStart, sessionVars, bridgeVars,
                  navVars, genVars, outcome, eventVars >>

\* writeTo: await writeFile(newFilePath, data, "utf-8") succeeds, writeTo
\* returns and page.close() is called.
WriteFile(i) ==
  /\ procAlive /\ pc[i] = "writeFile"
  /\ written' = [written EXCEPT ![i] = Append(@, FileWrite(out[i], html[i]))]
  /\ pc' = [pc EXCEPT ![i] = "pageClose"]
  /\ UNCHANGED << procVars, docVars,
                  now, timeout, timerStart, sessionVars, bridgeVars,
                  navVars, genVars, out, resultVars, eventVars >>

\* writeTo: writeFile fails: catch (err) { console.error(...); process.exit(1) }
\* The whole node process ends here; no finally block runs.
WriteFileExit(i) ==
  /\ procAlive /\ pc[i] = "writeFile"
  /\ procAlive' = FALSE
  /\ exitedBy' = i
  /\ UNCHANGED << env, docVars, now, pc, timeout, timerStart, sessionVars, bridgeVars,
                  navVars, genVars, outVars, resultVars, eventVars >>

\* await page.close(); return html;
PageClose(i) ==
  /\ procAlive /\ pc[i] = "pageClose"
  /\ \/ /\ page' = [page EXCEPT ![i] = "closed"]
        /\ body' = [body EXCEPT ![i] = Return(html[i])]
        /\ pc' = [pc EXCEPT ![i] = "finally"]
     \/ /\ ThrowInTry(i, Err("PageCloseError", "", <<>>))
        /\ UNCHANGED page
  /\ UNCHANGED << procVars, docVars,
                  now, timeout, timerStart, nextDir, userDataDir,
                  browser, closeCalls, bridgeVars, navVars, genVars, outVars,
                  outcome, eventVars >>

\* ----------------------------------------------------------------- finally
\* finally { await browser.close(); }: the call.
Finally(i) ==
  /\ procAlive /\ pc[i] = "finally"
  /\ closeCalls' = [closeCalls EXCEPT ![i] = @ + 1]
  /\ pc' = [pc EXCEPT ![i] = "closing"]
  /\ UNCHANGED << procVars, docVars,
                  now, timeout, timerStart, nextDir, userDataDir,
                  browser, page, bridgeVars, navVars, genVars, outVars,
                  resultVars, eventVars >>

\* A finally block that completes normally lets the completion of the try
\* block through; one that throws replaces it.
SettleAfterFinally(completion, closeErr) ==
  IF closeErr # NoErr THEN Rejected(closeErr)
  ELSE IF completion.type = "return" THEN Resolved(completion.html)
  ELSE Rejected(completion.err)

\* A close that leaves the connection, and what is queued on it, in place.
DisconnectKeepsQueue(queue) == queue

\* The browser is gone: the connection is disposed and what the page had sent
\* and node had not handled yet is dropped.
Disconnect(queue) == << >>

\* await browser.close() returns: the promise of fetchAndWrite settles.
BrowserClosed(i) ==
  /\ procAlive /\ pc[i] = "closing"
  /\ browser' = [browser EXCEPT ![i] = "closed"]
  /\ page' = [page EXCEPT ![i] = IF @ = "open" THEN "closed" ELSE @]
  /\ inflight' = [inflight EXCEPT ![i] = Disconnect(@)]
  /\ cmds' = [cmds EXCEPT ![i] = << >>]
  /\ outcome' = [outcome EXCEPT ![i] = SettleAfterFinally(body[i], NoErr)]
  /\ pc' = [pc EXCEPT ![i] = "done"]
  /\ UNCHANGED << procVars, docVars,
                  now, timeout, timerStart, nextDir, userDataDir,
                  closeCalls, exposed, listeners, loading, navVars, genVars,
                  outVars, body,
                  emitted, calls >>

\* await browser.close() throws: the browser may still be running.
BrowserCloseFailed(i) ==
  /\ procAlive /\ pc[i] = "closing"
  /\ outcome' = [outcome EXCEPT ![i] =
                   SettleAfterFinally(body[i], Err("BrowserCloseError", "", <<>>))]
  /\ pc' = [pc EXCEPT ![i] = "done"]
  /\ UNCHANGED << procVars, docVars,
                  now, timeout, timerStart, sessionVars, bridgeVars,
                  navVars, genVars, outVars, body, eventVars >>

\* ------------------------------------------------------- the diagnostic bridge
\* The document dispatches a respecerror or respecwarn event; the listener
\* installed by evaluateOnNewDocument calls window.onRespecErrorOrWarning,
\* which sends { type, detail } to node.
Emit(i) ==
  /\ procAlive /\ browser[i] = "open" /\ page[i] = "open" /\ loading[i]
  /\ Len(emitted[i]) < MaxEvents
  /\ \E t \in EventTypes :
       LET e == [type |-> t, detail |-> Len(emitted[i]) + 1] IN
       /\ emitted' = [emitted EXCEPT ![i] = Append(@, e)]
       /\ IF listeners[i] /\ exposed[i] /\ Listened(t)
          THEN inflight' = [inflight EXCEPT ![i] = Append(@, e)]
          ELSE UNCHANGED inflight
  /\ UNCHANGED << procVars, docVars,
                  now, pc, timeout, timerStart, sessionVars, bridgeVars,
                  navVars, genVars, outVars, resultVars, calls >>

\* Node handles the next binding call: the function given to exposeFunction
\* runs and calls onError or onWarning.  The calls are handled in the order
\* sent, at any later turn of the event loop.
Deliver(i) ==
  /\ procAlive /\ inflight[i] # << >>
  /\ calls' = [calls EXCEPT ![i] = @ \o Dispatch(Head(inflight[i]))]
  /\ inflight' = [inflight EXCEPT ![i] = Tail(@)]
  /\ UNCHANGED << procVars, docVars,
                  now, pc, timeout, timerStart, sessionVars, bridgeVars,
                  navVars, genVars, outVars, resultVars, emitted >>

\* ------------------------------------------------------------------- clock
\* Date.now() is read by createTimer and by timer.remaining, and timers run
\* while page.goto and the readiness race are pending: the clock is modelled
\* up to the end of the race.
Timed(i) ==
  pc[i] \in {"mkdtemp", "launch", "newPage", "exposeFunction", "goto",
             "checkIfReSpec", "waitForFunction", "getVersion", "respecIsReady"}

Tick ==
  /\ procAlive /\ now < MaxTime
  /\ \E i \in Invs : Timed(i)
  /\ now' = now + 1
  /\ UNCHANGED << procVars, docVars,
                  pc, timeout, timerStart, sessionVars, bridgeVars,
                  navVars, genVars, outVars, resultVars, eventVars >>

\* ------------------------------------------------------------ core/examples
\* What fetchAndWrite's state is while a module of the document runs.
pipelineVars ==
  << procVars, now, pc, timeout, timerStart, sessionVars, bridgeVars, navVars,
     genVars, outVars, resultVars, eventVars >>

\* querySelectorAll("pre.example, pre.illegal-example, aside.example"): an
\* example is an aside or a pre, inside some aside or not.
ExampleElements == [localName : {"aside", "pre"}, inAside : BOOLEAN]
ExampleDocs == SeqsUpTo(ExampleElements, MaxExamples)

\* A report that takes the counter after it was incremented.
ReportAfterIncrement(number) == [number |-> number + 1]

\* const report = { number, illegal }: the counter as it is before this
\* example is counted.
NewReport(number) == [number |-> number]

\* makeTitle: const number = num > 0 ? ` ${num}` : "";
MakeTitle(num) == IF num > 0 THEN << num >> ELSE << >>

\* let number = 0 is the state before the first callback of forEach.
InitExamples ==
  /\ env = FewInputs /\ Started /\ linter = NoLint
  /\ \E d \in ExampleDocs :
       examples = [doc |-> d, pos |-> 0, number |-> 0, titles |-> << >>,
                   published |-> << >>]

\* examples.forEach(example => { ... }): the callback for the next example.
ForEachExample ==
  /\ examples.pos < Len(examples.doc)
  /\ LET example == examples.doc[examples.pos + 1]
         report == NewReport(examples.number)
     IN
     IF example.localName = "aside"
     THEN LET number == examples.number + 1 IN
          examples' = [examples EXCEPT
                         !.pos = @ + 1,
                         !.number = number,
                         !.titles = Append(@, MakeTitle(number)),
                         !.published = Append(@, report)]
     ELSE LET inAside == example.inAside
              number == IF ~inAside THEN examples.number + 1 ELSE examples.number
          IN
          examples' = [examples EXCEPT
                         !.pos = @ + 1,
                         !.number = number,
                         !.titles = Append(@, MakeTitle(IF inAside THEN 0 ELSE number)),
                         !.published = IF ~inAside THEN Append(@, report) ELSE @]
  /\ UNCHANGED << pipelineVars, linter >>

NextExamples == ForEachExample
SpecExamples == InitExamples /\ [][NextExamples]_vars

\* ------------------------------------------- core/linter-rules/local-refs-exist
\* const baseURI = new URL(document.baseURI)
BaseURI == [origin |-> "https://example.org", pathname |-> "/spec.html"]

\* The a[href] elements: elem.hash ("" without a fragment), elem.origin and
\* elem.pathname.
Hashes == { << >>, << "#", "a" >>, << "#", "%", "2", "5" >> }
Links ==
  [hash : Hashes, origin : {BaseURI.origin, "https://other.example"},
   pathname : {BaseURI.pathname, "/other.html"}]

\* elem.hash.substring(1)
Substring1(hash) == Tail(hash)

\* isBrokenHyperlink(elem, baseURI), over a document with the given ids and
\* names.
IsBrokenHyperlink(elem, baseURI, ids, names) ==
  IF elem.hash = << >> THEN FALSE
  ELSE IF elem.origin = baseURI.origin /\ elem.pathname # baseURI.pathname
    THEN FALSE
  ELSE LET id == DecodeURIComponent(Substring1(elem.hash)) IN
       id \notin ids /\ id \notin names

\* [...elems].filter(...): the elements kept, in document order, by position.
RECURSIVE Filter(_, _, _, _)
Filter(elems, k, ids, names) ==
  IF k > Len(elems) THEN << >>
  ELSE (IF IsBrokenHyperlink(elems[k], BaseURI, ids, names) THEN << k >> ELSE << >>)
       \o Filter(elems, k + 1, ids, names)

InitLint ==
  /\ env = FewInputs /\ Started /\ examples = NoExamples
  /\ \E enabled \in BOOLEAN, ids \in SUBSET { << "a" >>, << "%" >> },
        names \in SUBSET { << "a" >> }, links \in SeqsUpTo(Links, MaxLinks) :
       linter = [enabled |-> enabled, ids |-> ids, names |-> names,
                 links |-> links, ran |-> FALSE, warnings |-> << >>]

\* run(conf)
RunLint ==
  /\ ~linter.ran
  /\ IF ~linter.enabled
     THEN linter' = [linter EXCEPT !.ran = TRUE]
     ELSE LET offendingElements ==
                Filter(linter.links, 1, linter.ids, linter.names)
          IN  linter' = [linter EXCEPT
                           !.ran = TRUE,
                           !.warnings =
                              IF Len(offendingElements) > 0
                              THEN Append(@, [elements |-> offendingElements])
                              ELSE @]
  /\ UNCHANGED << pipelineVars, examples >>

NextLint == RunLint
SpecLint == InitLint /\ [][NextLint]_vars

\* ---------------------------------------------------------- specifications
\* One invocation, with the clock and the document's events.
Next ==
  \/ Tick
  \/ \E i \in Solo :
       \/ Call(i) \/ Mkdtemp(i) \/ Launch(i) \/ NewPage(i) \/ ExposeFunction(i)
       \/ Goto(i) \/ GotoTimeout(i) \/ CheckIfReSpec(i) \/ WaitForFunction(i)
       \/ GetVersionStep(i) \/ ReadyResolved(i) \/ ReadyRejected(i)
       \/ TimerFired(i) \/ Require(i) \/ BeforeWrite(i) \/ WriteFile(i)
       \/ WriteFileExit(i) \/ PageClose(i) \/ Finally(i) \/ BrowserClosed(i)
       \/ BrowserCloseFailed(i) \/ BrowserHandles(i) \/ Emit(i) \/ Deliver(i)

Spec == Init /\ [][Next]_vars

\* Two invocations in one node process, interleaved at their awaits; the clock
\* stands still and the documents raise no events.
NextConc ==
  \E i \in Invs :
    \/ Call(i) \/ Mkdtemp(i) \/ Launch(i) \/ NewPage(i) \/ ExposeFunction(i)
    \/ Goto(i) \/ CheckIfReSpec(i) \/ WaitForFunction(i) \/ GetVersionStep(i)
    \/ ReadyResolved(i) \/ ReadyRejected(i) \/ Require(i) \/ BeforeWrite(i)
    \/ WriteFile(i) \/ WriteFileExit(i) \/ PageClose(i) \/ Finally(i)
    \/ BrowserClosed(i) \/ BrowserCloseFailed(i) \/ BrowserHandles(i)

SpecConc == InitConc /\ [][NextConc]_vars

\* One invocation that exports markup of up to MaxExportLen characters; the
\* clock stands still, the document raises no events, nothing goes to a file.
NextExport ==
  \E i \in Solo :
    \/ Call(i) \/ Mkdtemp(i) \/ Launch(i) \/ NewPage(i) \/ ExposeFunction(i)
    \/ Goto(i) \/ CheckIfReSpec(i) \/ WaitForFunction(i) \/ GetVersionStep(i)
    \/ ReadyResolved(i) \/ ReadyRejected(i) \/ Require(i) \/ BeforeWrite(i)
    \/ PageClose(i) \/ Finally(i) \/ BrowserClosed(i) \/ BrowserCloseFailed(i)
    \/ BrowserHandles(i)

SpecExport == InitExport /\ [][NextExport]_vars

\* =================================================================== claims
Acquired(i) == browser[i] # "none"
Ended(i) == pc[i] = "done" \/ ~procAlive
Cleanup == {"finally", "closing", "done"}

\* C1: every invocation that acquired its browser (puppeteer.launch returned)
\* has called browser.close exactly once by the time it ends, whatever the
\* exit path, and never calls it twice.
C1_ReleasedExactlyOnce ==
  \A i \in Invs :
    /\ closeCalls[i] <= 1
    /\ (Acquired(i) /\ Ended(i)) => closeCalls[i] = 1

\* C2: when the timer fires before document.respecIsReady settles, the call
\* rejects with an error of a kind other than the one reported when the
\* export module cannot be loaded, and the browser was closed exactly once.
C2_DeadlineErrorIsDistinct ==
  \A i \in Invs :
    (pc[i] = "done" /\ raceWinner[i] = "timer") =>
      /\ outcome[i].state = "rejected"
      /\ outcome[i].err.kind # GenerateHTMLError("require", url[i]).kind
      /\ closeCalls[i] = 1

\* What the claims expect of the bridge: an error event goes to onError, a
\* warning event to onWarning, each with the detail it was raised with.
ExpectedCall(e) ==
  [cb |-> IF e.type = "respecerror" THEN "onError" ELSE "onWarning",
   detail |-> e.detail]
ExpectedCalls(events) == [k \in 1..Len(events) |-> ExpectedCall(events[k])]
IsPrefix(p, q) == Len(p) <= Len(q) /\ SubSeq(q, 1, Len(p)) = p

LexLess(v, w) ==
  \/ v[1] < w[1]
  \/ v[1] = w[1] /\ v[2] < w[2]
  \/ v[1] = w[1] /\ v[2] = w[2] /\ v[3] < w[3]

\* C5: the legacy path is taken exactly when the version triple is
\* lexicographically below (20, 10, 0); (20, 10, 0) itself and Developer
\* Edition take the modern path; the legacy path warns once on the console,
\* the modern path never.
C5_VersionGate ==
  \A i \in Invs :
    /\ pc[i] = "require" =>
         /\ Len(version[i]) = 3
         /\ path[i] \in {"legacy", "modern"}
         /\ path[i] = "legacy" <=> LexLess(version[i], << 20, 10, 0 >>)
         /\ version[i] = GetVersion(DeveloperEdition) => path[i] = "modern"
    /\ advisories[i] = IF path[i] = "legacy" THEN 1 ELSE 0

\* C5 witness: version 20.10.0 went down the modern path.
C5_Witness ==
  \E i \in Invs :
    /\ pc[i] = "require"
    /\ version[i] = << 20, 10, 0 >>
    /\ path[i] = "modern"
    /\ advisories[i] = 0

\* C6: whenever an invocation ends in a fatal error (its promise rejected, or
\* the process ended by its failed write), its browser has been closed first.
C6_FatalErrorsUnwindThroughRelease ==
  \A i \in Invs :
    (Acquired(i) /\ (outcome[i].state = "rejected" \/ exitedBy = i)) =>
      closeCalls[i] >= 1

\* C7: a failing browser.close() does not change what the call reports: the
\* markup if the try block returned, the error of the try block if it threw.
C7_ReleaseFailureDoesNotMask ==
  \A i \in Invs :
    (pc[i] = "done" /\ body[i].type # "none") =>
      outcome[i] = IF body[i].type = "return"
                   THEN Resolved(body[i].html)
                   ELSE Rejected(body[i].err)

\* A response that is a transport failure: not a 2xx status and not status 0.
BadStatus(st) == ~(st \in 200..299) /\ st # 0

\* C8: after navigation the try block throws the HTTP error exactly when the
\* status is neither 2xx nor 0; then no later stage has run, the message is
\* made of the status, the origin and the path, never of the query string, and
\* it is the error the call rejects with once the browser is closed.
C8_TransportError ==
  \A i \in Invs :
    /\ status[i] # -1 =>
         (body[i].err.kind = "HTTPError" <=> BadStatus(status[i]))
    /\ (status[i] # -1 /\ ~BadStatus(status[i])) =>
         (pc[i] = "checkIfReSpec" /\ body[i].type = "none")
    /\ body[i].err.kind = "HTTPError" =>
         /\ status[i] # -1
         /\ pc[i] \in Cleanup
         /\ version[i] = NoVersion /\ raceWinner[i] = "none" /\ path[i] = "none"
         /\ html[i] = << >> /\ out[i] = OutUnread /\ written[i] = << >>
         /\ body[i].err.info =
              << "HTTP Error", ToString(status[i]), url[i].origin, url[i].pathname >>
         /\ \A k \in 1..Len(body[i].err.info) :
              url[i].search # "" => body[i].err.info[k] # url[i].search
         /\ browser[i] = "closed" => outcome[i] = Rejected(body[i].err)

\* C8 witness: a 404 for a source with a query string ended the invocation.
C8_Witness ==
  \E i \in Invs :
    /\ pc[i] = "done"
    /\ status[i] = 404
    /\ url[i].search = "?key=SECRET"
    /\ outcome[i].err.kind = "HTTPError"

\* C9: on a successful run, null writes the markup to stdout and no file,
\* "" writes nothing, any other string writes one file holding the returned
\* markup; the value returned is the markup generateHTML produced.
C9_OutputByDestination ==
  \A i \in Invs :
    outcome[i].state = "resolved" =>
      /\ outcome[i].html = html[i]
      /\ html[i] # << >>
      /\ out[i] = OutNull =>
           written[i] = << [sink |-> "stdout", path |-> << >>, data |-> outcome[i].html] >>
      /\ out[i] = OutEmpty => written[i] = << >>
      /\ out[i] \notin {OutNull, OutEmpty} =>
           /\ Len(written[i]) = 1
           /\ written[i][1].sink = "file"
           /\ written[i][1].data = outcome[i].html
           /\ written[i][1].path =
                IF out[i].abs THEN << out[i].name >> ELSE << Cwd, out[i].name >>

\* C9 witness: a run that wrote its markup to a file path resolved.
C9_Witness ==
  \E i \in Invs :
    /\ outcome[i].state = "resolved"
    /\ out[i] = OutRel
    /\ Len(written[i]) = 1
    /\ written[i][1].data = << "%" >>

\* C10: a failure in one invocation leaves the other untouched: when one has
\* ended the process by its failed write, every other invocation that
\* acquired a browser has settled and has closed it exactly once.
C10_InvocationsIndependent ==
  \A i \in Invs : \A j \in Invs \ {i} :
    (exitedBy = j /\ Acquired(i)) =>
      /\ outcome[i].state # "pending"
      /\ closeCalls[i] = 1

\* C11: the navigation is bounded by what the deadline has left when it
\* starts, not by the full timeout: its budget is the timer's remaining time
\* at the call of page.goto, so the navigation's own deadline never lies
\* after the deadline of the invocation.
C11_NavigationWithinDeadline ==
  \A i \in Invs :
    pc[i] = "goto" =>
      /\ NavigationBudget(i) = Remaining(timerStart[i], timeout[i], gotoStart[i])
      /\ gotoStart[i] + NavigationBudget(i) <= timerStart[i] + timeout[i]

\* C12: every read of the deadline's remaining time lies in [0, D], where D
\* is the duration the timer was created with, and equals max(0, D - elapsed);
\* it never grows as time advances, and once it is zero it stays zero.  The
\* budget handed to the readiness race is such a read.
C12_RemainingBudget ==
  [][\A i \in Invs :
       (pc[i] # "idle" /\ pc'[i] # "idle") =>
         LET r == Remaining(timerStart[i], timeout[i], now)
             r2 == Remaining(timerStart'[i], timeout'[i], now')
         IN  /\ r \in 0..timeout[i]
             /\ r2 \in 0..timeout[i]
             /\ r = IF now - timerStart[i] >= timeout[i]
                    THEN 0
                    ELSE timeout[i] - (now - timerStart[i])
             /\ r2 <= r
             /\ (r = 0 => r2 = 0)
             /\ (pc[i] = "getVersion" /\ pc'[i] = "respecIsReady"
                   => evalMs'[i] = r)]_vars

\* The readiness race is started with nothing left, after the deadline.
C12_Witness ==
  \E i \in Invs :
    /\ pc[i] = "respecIsReady"
    /\ now - timerStart[i] > timeout[i]
    /\ evalMs[i] = 0

\* C13: on the modern export path the markup the call hands on is the source
\* markup: decoding the exporter's percent-encoded data URL, after the prefix
\* is stripped, gives back the markup that was encoded, whatever characters
\* it holds; the markup returned to the caller is that markup.
C13_ExportRoundTrip ==
  \A i \in Invs :
    path[i] = "modern" =>
      /\ html[i] = docMarkup[i]
      /\ (body[i].type = "return" => body[i].html = docMarkup[i])
      /\ \A k \in 1..Len(written[i]) : written[i][k].data = docMarkup[i]

\* Markup that looks like an escape itself went through the modern export
\* and was returned.
C13_Witness ==
  \E i \in Invs :
    /\ path[i] = "modern"
    /\ docMarkup[i] = << "%", "2", "5" >>
    /\ body[i].type = "return"
    /\ written[i] # << >>

\* C14: beforeWrite is awaited after the extraction has produced the markup
\* and before any output is delivered; when it fails nothing is written, the
\* call rejects with that failure, and the browser is closed.
HookFailed(i) == body[i].type = "throw" /\ body[i].err.kind = "BeforeWriteError"
C14_HookBeforeOutput ==
  \A i \in Invs :
    /\ pc[i] = "beforeWrite" =>
         /\ raceWinner[i] = "resolved" /\ path[i] # "none"
         /\ written[i] = << >> /\ out[i] = OutUnread
    /\ (written[i] # << >> \/ out[i] # OutUnread) =>
         /\ pc[i] \in {"writeFile", "pageClose"} \cup Cleanup
         /\ ~HookFailed(i)
    /\ HookFailed(i) =>
         /\ written[i] = << >> /\ out[i] = OutUnread
         /\ pc[i] \in Cleanup
         /\ pc[i] = "done" =>
              /\ outcome[i] = Rejected(body[i].err)
              /\ closeCalls[i] = 1 /\ browser[i] = "closed"

\* C15: the stages of one invocation run in the order acquire, navigate,
\* validate the kind of document, wait for readiness, extract, deliver, each
\* started only when the one before it succeeded; the readiness wait and the
\* extraction are never started unless isRespec returned true, and when it
\* returns false the invocation throws the not-a-ReSpec error and goes
\* straight to the finally block.
NextStages(p) ==
  CASE p = "idle" -> {"mkdtemp"}
    [] p = "mkdtemp" -> {"launch", "done"}
    [] p = "launch" -> {"newPage", "done"}
    [] p = "newPage" -> {"exposeFunction", "finally"}
    [] p = "exposeFunction" -> {"goto", "finally"}
    [] p = "goto" -> {"checkIfReSpec", "finally"}
    [] p = "checkIfReSpec" -> {"waitForFunction", "finally"}
    [] p = "waitForFunction" -> {"getVersion", "finally"}
    [] p = "getVersion" -> {"respecIsReady", "finally"}
    [] p = "respecIsReady" -> {"require", "finally"}
    [] p = "require" -> {"beforeWrite", "finally"}
    [] p = "beforeWrite" -> {"writeFile", "pageClose", "finally"}
    [] p = "writeFile" -> {"pageClose"}
    [] p = "pageClose" -> {"finally"}
    [] p = "finally" -> {"closing"}
    [] p = "closing" -> {"done"}
    [] OTHER -> {}
AfterCheck ==
  {"waitForFunction", "getVersion", "respecIsReady", "require", "beforeWrite",
   "writeFile", "pageClose"}
StageGates(i) ==
  /\ pc[i] \in {"newPage", "exposeFunction", "goto", "checkIfReSpec"} \cup AfterCheck
       => browser[i] = "open"
  /\ pc[i] \in {"goto", "checkIfReSpec"} \cup AfterCheck
       => page[i] = "open" /\ exposed[i] /\ url[i] # NoURL
  /\ pc[i] = "checkIfReSpec" => status[i] # -1 /\ ~IsHTTPError(status[i])
  /\ isRespecDoc[i] # "unknown" => loading[i]
  /\ ( \/ pc[i] \in AfterCheck
       \/ raceWinner[i] # "none" \/ path[i] # "none" \/ advisories[i] # 0
       \/ html[i] # << >> \/ out[i] # OutUnread \/ written[i] # << >> )
       => isRespecDoc[i] = "true"
  /\ pc[i] \in {"require", "beforeWrite", "writeFile", "pageClose"}
       => raceWinner[i] = "resolved"
  /\ isRespecDoc[i] = "false"
       => /\ pc[i] \in Cleanup
          /\ body[i] = Throw(Err("NotReSpec", "", <<>>))
C15_StagesInOrder ==
  [][\A i \in Invs :
       /\ StageGates(i)
       /\ StageGates(i)'
       /\ pc'[i] # pc[i] => pc'[i] \in NextStages(pc[i])]_vars

\* A document that is not a ReSpec document was refused and the call ended.
C15_Witness ==
  \E i \in Invs :
    /\ isRespecDoc[i] = "false"
    /\ pc[i] = "done"
    /\ outcome[i] = Rejected(Err("NotReSpec", "", <<>>))

\* C16: the exposed function and the listeners for respecwarn and respecerror
\* are both installed before the browser starts to load the target, so the
\* document raises no event that has no listener, although
\* page.evaluateOnNewDocument is not awaited before page.goto is called.
C16_BridgeBeforeNavigation ==
  \A i \in Invs :
    /\ loading[i] => exposed[i] /\ listeners[i]
    /\ emitted[i] # << >> => exposed[i] /\ listeners[i]

\* The document raised an event while page.goto was still pending.
C16_Witness ==
  \E i \in Invs :
    /\ pc[i] = "goto"
    /\ emitted[i] # << >>
    /\ inflight[i] # << >>

\* C17: once the timeout has passed since the timer was created, whichever
\* suspension point is in progress (the navigation, the wait for the version
\* global, the readiness race, the load of the export module) is failed by
\* the deadline, so that the invocation unwinds to the finally block even if
\* the document never answers.
DeadlineExpired(i) == pc[i] # "idle" /\ now - timerStart[i] >= timeout[i]
SuspensionPoints == {"goto", "waitForFunction", "respecIsReady", "require"}
DeadlineFailure(i) == GotoTimeout(i) \/ TimerFired(i)
C17_DeadlineUnwinds ==
  \A i \in Invs :
    (procAlive /\ DeadlineExpired(i) /\ pc[i] \in SuspensionPoints)
      => ENABLED DeadlineFailure(i)

\* C18: no profile directory an invocation created is left without a browser
\* that owns it and gets closed: an invocation that could not get its browser
\* never navigates, and when puppeteer.launch throws after mkdtemp returned,
\* the directory is removed again.  (No line of fetchAndWrite removes the
\* directory: once made it is there unless a closing browser takes it along.)
DirectoryMade(i) == userDataDir[i] # 0
C18_NoOrphanDirectory ==
  \A i \in Invs :
    /\ browser[i] = "none" => url[i] = NoURL /\ cmds[i] = << >> /\ ~loading[i]
    /\ (Ended(i) /\ DirectoryMade(i)) => Acquired(i) /\ closeCalls[i] = 1

\* C19: core/examples run(), over any sequence of examples in document
\* order: the numbers in the titles of asides and of pre elements outside
\* asides are 1, 2, ..., n in document order; a pre inside an aside shows no
\* number, does not advance the counter and publishes no event; every other
\* example publishes exactly one event whose report.number is the count of
\* numbered examples before it, the number shown minus one.
Numbered(doc, k) == doc[k].localName = "aside" \/ ~doc[k].inAside
NumberedUpTo(doc, k) == Cardinality({ j \in 1..k : Numbered(doc, j) })
PointsIntoPage(elem) ==
  elem.origin = BaseURI.origin /\ elem.pathname = BaseURI.pathname
Broken(elem) ==
  /\ elem.hash # << >>
  /\ PointsIntoPage(elem)
  /\ LET id == DecodeURIComponent(Tail(elem.hash)) IN
       id \notin linter.ids /\ id \notin linter.names
C20_OnlyLocalBrokenLinksReported ==
  linter.ran =>
    LET broken == { k \in 1..Len(linter.links) : Broken(linter.links[k]) }
        listed(w) == { w.elements[n] : n \in 1..Len(w.elements) }
    IN  /\ Len(linter.warnings) <= 1
        /\ ~linter.enabled => linter.warnings = << >>
        /\ (linter.enabled /\ broken # {}) => Len(linter.warnings) = 1
        /\ \A n \in 1..Len(linter.warnings) : listed(linter.warnings[n]) = broken

====
